---- MODULE Spec2Model ----
(***************************************************************************)
(* Model of the Pico 2 W firmware downloader (src/src/main.rs): the image  *)
(* loader (raw binary and Intel HEX with relocation), the CRC-32           *)
(* computation, and the open-loop upload sequence over the serial port.    *)
(*                                                                         *)
(* 32-bit values are kept as two 16-bit halves [hi, lo], so that every     *)
(* u32 of the program (addresses up to 0xFFFFFFFF, checksums) is           *)
(* representable and the arithmetic keeps its width.                       *)
(***************************************************************************)
EXTENDS Integers, Sequences, FiniteSets, TLC

\* ---------------------------------------------------------------- bounds
MaxLen == 10
MaxChunk == 5
MaxRecords == 3

\* ------------------------------------------------------- integer helpers
Min(a, b) == IF a <= b THEN a ELSE b
Max(a, b) == IF a >= b THEN a ELSE b

U32(h, l) == [hi |-> h, lo |-> l]

\* data.len() as u32 (main.rs:97): the low 32 bits of the length
AsU32(n) == U32((n \div 65536) % 65536, n % 65536)

\* u32 widened to u64/usize (main.rs:60, 148)
U32ToNat(x) == x.hi * 65536 + x.lo

\* base_addr + offset as u32 (main.rs:57): 32-bit wrapping sum
AddU32(a, b) ==
    LET l == a.lo + b.lo
        h == a.hi + b.hi + (l \div 65536)
    IN  U32(h % 65536, l % 65536)

\* carry out of bit 31 of a + b
AddU32Overflows(a, b) == a.hi + b.hi + ((a.lo + b.lo) \div 65536) >= 65536

\* a >= b on u32 (main.rs:59)
GeU32(a, b) == a.hi > b.hi \/ (a.hi = b.hi /\ a.lo >= b.lo)

\* a - b on u32 for a >= b (main.rs:60)
SubU32(a, b) ==
    IF a.lo >= b.lo THEN U32(a.hi - b.hi, a.lo - b.lo)
    ELSE U32(a.hi - b.hi - 1, a.lo + 65536 - b.lo)

\* a base address that takes the upper half unshifted
Shl16Unshifted(upper) == U32(0, upper)

\* (upper as u32) << 16 (main.rs:68)
Shl16(upper) == U32(upper, 0)

RECURSIVE XorN(_, _, _)
XorN(a, b, n) ==
    IF n = 0 THEN 0
    ELSE ((a + b) % 2) + 2 * XorN(a \div 2, b \div 2, n - 1)

Xor16(a, b) == XorN(a, b, 16)
XorU32(a, b) == U32(Xor16(a.hi, b.hi), Xor16(a.lo, b.lo))
Shr1(a) == U32(a.hi \div 2, (a.lo \div 2) + (a.hi % 2) * 32768)
Shr8(a) == U32(a.hi \div 256, (a.lo \div 256) + (a.hi % 256) * 256)

RECURSIVE RevBits(_, _)
\* the n low bits of v in reverse order
RevBits(v, n) ==
    IF n = 0 THEN 0
    ELSE (v % 2) * (2 ^ (n - 1)) + RevBits(v \div 2, n - 1)

\* u32::reverse_bits
Reflect32(a) == U32(RevBits(a.lo, 16), RevBits(a.hi, 16))

\* ------------------------------------------------------------ CRC-32
\* CRC_32_ISO_HDLC as the crc crate defines it (main.rs:3, 95): width 32,
\* poly 0x04C11DB7, init 0xFFFFFFFF, refin, refout, xorout 0xFFFFFFFF
CrcPoly == U32(1217, 7607)
CrcInit == U32(65535, 65535)
CrcXorOut == U32(65535, 65535)
CrcRefIn == TRUE
CrcRefOut == TRUE

\* Crc::new builds its table with the reflected polynomial when refin is set
TablePoly == IF CrcRefIn THEN Reflect32(CrcPoly) ELSE CrcPoly

\* one shift step of the reflected bitwise division
CrcShift(v) == IF v.lo % 2 = 1 THEN XorU32(Shr1(v), TablePoly) ELSE Shr1(v)

\* k shift steps
CrcBits(v, k) ==
    LET f[j \in 0 .. k] == IF j = 0 THEN v ELSE CrcShift(f[j - 1])
    IN  f[k]

\* table[i]
TableEntry(i) == CrcBits(U32(0, i), 8)

\* crc = table[(crc ^ byte) & 0xFF] ^ (crc >> 8)
CrcUpdateByte(crc, b) ==
    XorU32(TableEntry(XorN(crc.lo % 256, b, 8)), Shr8(crc))

\* update(crc, bytes) over bytes[i ..]; the test on prev only makes the
\* evaluation strict, so that the fold runs byte by byte
CrcUpdate(crc, bytes, i) ==
    LET f[j \in (i - 1) .. Len(bytes)] ==
            IF j = i - 1 THEN crc
            ELSE LET prev == f[j - 1]
                 IN  IF prev.lo >= 0 THEN CrcUpdateByte(prev, bytes[j]) ELSE prev
    IN  f[Len(bytes)]

CrcStart == IF CrcRefIn THEN Reflect32(CrcInit) ELSE CrcInit

CrcFinalize(crc) ==
    XorU32(IF CrcRefIn # CrcRefOut THEN Reflect32(crc) ELSE crc, CrcXorOut)

\* a CRC that forgets the final XOR
ChecksumNoXorOut(bytes) == CrcUpdate(CrcStart, bytes, 1)

\* crc_algo.checksum(&data) (main.rs:96)
Checksum(bytes) == CrcFinalize(CrcUpdate(CrcStart, bytes, 1))

\* ------------------------------------------------------------ header
\* u32::to_le_bytes
ToLeBytes(x) == << x.lo % 256, x.lo \div 256, x.hi % 256, x.hi \div 256 >>

\* u32::to_be_bytes
ToBeBytes(x) == << x.hi \div 256, x.hi % 256, x.lo \div 256, x.lo % 256 >>

\* a header written big-endian
HeaderBigEndian(l, c) == ToBeBytes(l) \o ToBeBytes(c)

\* header[0..4] = len LE, header[4..8] = crc LE (main.rs:141-143)
Header(l, c) == ToLeBytes(l) \o ToLeBytes(c)

\* ------------------------------------------------- relocation (hex mode)
\* vec![0xFFu8; 2 * 1024 * 1024]: the capacity and the fill byte
BufLen == 2097152
FillByte == 255

\* 0x10010100
RelocBase == U32(4097, 256)

\* base_addr + offset as u32
TargetAddr(base, offset) == AddU32(base, U32(0, offset))

\* (target_addr - 0x10010100) as usize, kept in halves
RelOffset(target) == SubU32(target, RelocBase)

\* rel_offset + value.len() <= buffer.len(); a rel_offset whose high half
\* exceeds BufLen / 65536 is above the capacity whatever its low half is
RelFits(rel, n) ==
    /\ rel.hi <= BufLen \div 65536
    /\ U32ToNat(rel) + n <= BufLen

\* a guard that forgets the lower bound of the application slot
AppliesNoLowerBound(base, offset, n) ==
    LET target == TargetAddr(base, offset)
    IN  IF GeU32(target, RelocBase) THEN RelFits(RelOffset(target), n)
        ELSE TRUE

\* the two nested guards of the Data arm (main.rs:59, 61)
Applies(base, offset, n) ==
    LET target == TargetAddr(base, offset)
    IN  /\ GeU32(target, RelocBase)
        /\ RelFits(RelOffset(target), n)

\* the scratch buffer holds the bytes written so far; every other index of
\* 0 .. BufLen-1 still holds the fill byte
EmptyBuf == [i \in {} |-> FillByte]
BufAt(buf, i) == IF i \in DOMAIN buf THEN buf[i] ELSE FillByte

\* a copy that lands one byte too far
CopyFromSliceShifted(buf, r, value) ==
    LET span == (r + 1) .. (r + Len(value))
    IN  [i \in (DOMAIN buf) \cup span |->
            IF i \in span THEN value[i - r] ELSE buf[i]]

\* buffer[rel_offset..rel_offset + value.len()].copy_from_slice(&value)
CopyFromSlice(buf, r, value) ==
    LET span == r .. (r + Len(value) - 1)
    IN  [i \in (DOMAIN buf) \cup span |->
            IF i \in span THEN value[i - r + 1] ELSE buf[i]]

\* a high-water mark that follows the last record instead of the maximum
HighWaterLast(old, r, n) == r + n

\* max_offset.max(rel_offset + value.len())
HighWater(old, r, n) == Max(old, r + n)

\* a loader that treats an empty result as success
NoDataNever(m) == FALSE

\* if max_offset == 0 (main.rs:74)
NoData(m) == m = 0

\* buffer[..max_offset].to_vec()
Truncate(buf, m) == [i \in 1 .. m |-> BufAt(buf, i - 1)]

\* ------------------------------------------------------ raw-binary mode
AppsMagic == << 65, 80, 80, 83 >>

\* data.len() >= 4 && &data[0..4] == b"APPS"
HasAppsMagic(d) == Len(d) >= 4 /\ SubSeq(d, 1, 4) = AppsMagic

\* a loader that strips the four marker bytes
ReadToEndStripped(f) == IF HasAppsMagic(f) THEN SubSeq(f, 5, Len(f)) ELSE f

\* File::open(..)?.read_to_end(&mut data) into an empty Vec
ReadToEnd(f) == f

\* an emptiness check that lets the empty image through
IsEmptyNever(d) == FALSE

\* data.is_empty()
IsEmpty(d) == Len(d) = 0

\* ------------------------------------------------------ upload protocol
RebootCmd == << 114, 101, 98, 111, 111, 116, 13, 10 >>
TriggerCmd == << 117 >>
Magic == << 170 >>
RebootDelayMs == 2000
TriggerDelayMs == 1000

\* a driver that always reboots first
AfterOpenAlways(reboot) == "reboot_write"

\* if args.reboot { .. } (main.rs:118)
AfterOpen(reboot) == IF reboot THEN "reboot_write" ELSE "trigger_write"

\* a chunk that is one byte longer than asked
ChunkEndPlusOne(s, c, n) == Min(s + c + 1, n)

\* (sent + args.chunk_size).min(data.len())
ChunkEnd(s, c, n) == Min(s + c, n)

\* a slice that resends the byte before the counter
SliceOverlap(d, s, e) == SubSeq(d, Max(s, 1), e)

\* &data[sent..end]
Slice(d, s, e) == SubSeq(d, s + 1, e)

\* an error that is swallowed, as by .ok()
OnErrorIgnore(next) == next

\* the ? operator: the first Err returns from main
OnError(next) == "error"

\* ------------------------------------------------------------- inputs
\* the command line: file kind by extension, chunk size, reboot flag
ArgsSet == [is_hex : BOOLEAN, chunk_size : 0 .. MaxChunk, reboot : BOOLEAN]

\* raw files: every prefix, up to MaxLen bytes, of a few byte strings
RawBases ==
    { << 65, 80, 80, 83, 1, 2, 3, 4, 5, 6, 7, 8 >>,
      << 65, 80, 80, 84, 9 >>,
      << 49, 50, 51, 52, 53, 54, 55, 56, 57 >>,
      << 1, 2, 3, 4, 5, 6, 7, 8, 9, 10, 11, 12 >> }
RawFiles == { SubSeq(b, 1, Min(n, Len(b))) : b \in RawBases, n \in 0 .. MaxLen }

\* Intel HEX records as the ihex reader yields them
DataRec(o, v) == [type |-> "Data", offset |-> o, upper |-> 0, value |-> v]
ElaRec(u) ==
    [type |-> "ExtendedLinearAddress", offset |-> 0, upper |-> u, value |-> << >>]
EofRec == [type |-> "EndOfFile", offset |-> 0, upper |-> 0, value |-> << >>]
OtherRec ==
    [type |-> "StartLinearAddress", offset |-> 0, upper |-> 0, value |-> << >>]
ErrRec == [type |-> "Err", offset |-> 0, upper |-> 0, value |-> << >>]

\* upper halves 0x1001 (the application slot), 0x1021 (the 64 KiB that
\* straddle the end of the 2 MiB capacity) and 0xFFFF (far above it)
ElaRecs == { ElaRec(4097), ElaRec(4129), ElaRec(65535) }

\* what a file may hold behind its first EndOfFile record: nothing, a Data
\* record that would be applied, a new base address and a Data record, a
\* second EndOfFile, a malformed line
Tails ==
    { << >>,
      << DataRec(256, << 193, 194, 195 >>) >>,
      << ElaRec(4097), DataRec(256, << 193, 194, 195 >>) >>,
      << EofRec >>,
      << ErrRec >> }

\* offsets around 0x0100, the low half of the relocation base
DataRecs ==
    { DataRec(255, << 7, 8 >>),
      DataRec(256, << >>),
      DataRec(256, << 161, 162 >>),
      DataRec(257, << 177 >>),
      DataRec(258, << >>),
      DataRec(259, << 193 >>) }

\* -------------------------------------------------------------- state
VARIABLES
    args,        \* parsed command line
    pc,          \* position in main
    err,         \* the error main returned, "" if none
    file,        \* raw mode: the contents of the input file
    records,     \* hex mode: the records the reader has yielded so far
    unread,      \* hex mode: the records of the file that were never read
    buffer,      \* hex mode: scratch buffer
    max_offset,  \* hex mode: high-water mark
    base_addr,   \* hex mode: current base address
    data,        \* the image
    warned,      \* the APPS advisory was printed
    crc_val,     \* checksum of the image
    len,         \* data.len() as u32
    port,        \* "closed", "open" or "released"
    opens,       \* number of successful opens
    log,         \* operations performed on the port and pauses, in order
    wire,        \* bytes the port accepted, in order
    sent,        \* streaming counter
    pb,          \* progress bar: total, position, spinner frame parity
    hdr,         \* header codec under test: inputs, encoding, decoding
    wide         \* word-width arithmetic under test: sizes and addresses

loader == << file, records, unread, buffer, max_offset, base_addr >>
image == << data, warned, crc_val, len >>
channel == << port, opens, log, wire >>
stream == << sent, pb >>
vars == << args, pc, err, loader, image, channel, stream, hdr, wide >>

Op(kind, bytes, ms, ok) == [op |-> kind, bytes |-> bytes, ms |-> ms, ok |-> ok]

NoHdr == [len |-> U32(0, 0), crc |-> U32(0, 0), bytes |-> << >>, built |-> FALSE]

NoWide == [kind |-> "none"]

\* the progress bar before ProgressBar::new
NoBar == [len |-> 0, pos |-> 0, tick |-> 0]

\* ProgressBar::new(len as u64) (main.rs:148)
NewBar(l) == [len |-> U32ToNat(l), pos |-> 0, tick |-> 0]

\* pb.set_position(p) (main.rs:161): the position is stored and the spinner
\* advances one frame, also when the position is the one already shown
SetPosition(bar, p) == [bar EXCEPT !.pos = p, !.tick = 1 - bar.tick]

Init ==
    /\ args \in ArgsSet
    /\ pc = "load"
    /\ err = ""
    /\ file = << >>
    /\ records = << >>
    /\ unread = << >>
    /\ buffer = EmptyBuf
    /\ max_offset = 0
    /\ base_addr = U32(0, 0)
    /\ data = << >>
    /\ warned = FALSE
    /\ crc_val = U32(0, 0)
    /\ len = U32(0, 0)
    /\ port = "closed"
    /\ opens = 0
    /\ log = << >>
    /\ wire = << >>
    /\ sent = 0
    /\ pb = NoBar
    /\ hdr = NoHdr
    /\ wide = NoWide

\* bail!/?: main returns Err before the port exists
Bail(e) ==
    /\ pc' = "error"
    /\ err' = e

\* ------------------------------------------------------- image loader
\* a reader error that is skipped like an unknown record
ParseFailedSkipped ==
    /\ pc' = pc
    /\ err' = err

\* record.map_err(..)? (main.rs:54): the first Err returns from main
ParseFailed == Bail("HexParseError")

\* an EndOfFile arm that goes on reading
AfterEndOfFileContinue == "hex_loop"

\* Record::EndOfFile => break (main.rs:70)
AfterEndOfFile == "hex_end"

\* main.rs:42-52: the file is read and the relocation context created
LoadHex ==
    /\ pc = "load"
    /\ args.is_hex
    /\ \/ /\ pc' = "hex_loop"
          /\ buffer' = EmptyBuf
          /\ max_offset' = 0
          /\ base_addr' = U32(0, 0)
          /\ UNCHANGED err
       \/ /\ Bail("FileReadError")
          /\ UNCHANGED << buffer, max_offset, base_addr >>
    /\ UNCHANGED << args, file, records, unread, image, channel, stream, hdr, wide >>

\* main.rs:56-66: one Data record; the files read keep the image within
\* MaxLen bytes
HexData ==
    /\ pc = "hex_loop"
    /\ Len(records) < MaxRecords
    /\ \E rec \in DataRecs :
          /\ Applies(base_addr, rec.offset, Len(rec.value)) =>
                 U32ToNat(RelOffset(TargetAddr(base_addr, rec.offset)))
                     + Len(rec.value) <= MaxLen
          /\ records' = Append(records, rec)
          /\ IF Applies(base_addr, rec.offset, Len(rec.value))
             THEN LET r == U32ToNat(RelOffset(TargetAddr(base_addr, rec.offset)))
                  IN  /\ buffer' = CopyFromSlice(buffer, r, rec.value)
                      /\ max_offset' = HighWater(max_offset, r, Len(rec.value))
             ELSE UNCHANGED << buffer, max_offset >>
    /\ UNCHANGED << args, pc, err, file, unread, base_addr, image, channel, stream,
                    hdr, wide >>

\* main.rs:67-69
HexExtendedLinearAddress ==
    /\ pc = "hex_loop"
    /\ Len(records) < MaxRecords
    /\ \E rec \in ElaRecs :
          /\ records' = Append(records, rec)
          /\ base_addr' = Shl16(rec.upper)
    /\ UNCHANGED << args, pc, err, file, unread, buffer, max_offset, image,
                    channel, stream, hdr, wide >>

\* main.rs:71: any other record type
HexOther ==
    /\ pc = "hex_loop"
    /\ Len(records) < MaxRecords
    /\ records' = Append(records, OtherRec)
    /\ UNCHANGED << args, pc, err, file, unread, buffer, max_offset, base_addr,
                    image, channel, stream, hdr, wide >>

\* main.rs:70: break; whatever the file holds behind the record stays unread
HexEndOfFile ==
    /\ pc = "hex_loop"
    /\ records' = Append(records, EofRec)
    /\ unread' \in Tails
    /\ pc' = AfterEndOfFile
    /\ UNCHANGED << args, err, file, buffer, max_offset, base_addr, image,
                    channel, stream, hdr, wide >>

\* main.rs:53: the reader is exhausted without an EndOfFile record
HexExhausted ==
    /\ pc = "hex_loop"
    /\ pc' = "hex_end"
    /\ UNCHANGED << args, err, loader, image, channel, stream, hdr, wide >>

\* main.rs:54: the reader yields Err
HexMalformed ==
    /\ pc = "hex_loop"
    /\ records' = Append(records, ErrRec)
    /\ ParseFailed
    /\ UNCHANGED << args, file, unread, buffer, max_offset, base_addr, image, channel,
                    stream, hdr, wide >>

\* main.rs:74-78: NoData, or the image is cut out of the scratch buffer and
\* the locals of the hex branch go out of scope
HexFinish ==
    /\ pc = "hex_end"
    /\ IF NoData(max_offset)
       THEN /\ Bail("NoData")
            /\ UNCHANGED << records, unread, buffer, max_offset, base_addr, data >>
       ELSE /\ data' = Truncate(buffer, max_offset)
            /\ records' = << >>
            /\ unread' = << >>
            /\ buffer' = EmptyBuf
            /\ max_offset' = 0
            /\ base_addr' = U32(0, 0)
            /\ pc' = "check_empty"
            /\ UNCHANGED err
    /\ UNCHANGED << args, file, warned, crc_val, len, channel, stream, hdr, wide >>

\* main.rs:79-88
LoadRaw ==
    /\ pc = "load"
    /\ ~args.is_hex
    /\ \/ \E f \in RawFiles :
             /\ file' = f
             /\ data' = ReadToEnd(f)
             /\ warned' = HasAppsMagic(data')
             /\ pc' = "check_empty"
             /\ UNCHANGED err
       \/ /\ Bail("FileReadError")
          /\ UNCHANGED << file, data, warned >>
    /\ UNCHANGED << args, records, unread, buffer, max_offset, base_addr, crc_val, len,
                    channel, stream, hdr, wide >>

\* main.rs:90-92
CheckEmpty ==
    /\ pc = "check_empty"
    /\ IF IsEmpty(data)
       THEN Bail("EmptyImage")
       ELSE pc' = "crc" /\ UNCHANGED err
    /\ UNCHANGED << args, loader, image, channel, stream, hdr, wide >>

\* main.rs:95-97
ComputeCrc ==
    /\ pc = "crc"
    /\ crc_val' = Checksum(data)
    /\ len' = AsU32(Len(data))
    /\ pc' = "open"
    /\ UNCHANGED << args, err, loader, data, warned, channel, stream, hdr, wide >>

\* ------------------------------------------------------ serial session
\* main.rs:102-115; the results of the DTR and RTS requests are discarded
OpenPort ==
    /\ pc = "open"
    /\ \/ /\ port' = "open"
          /\ opens' = opens + 1
          /\ pc' = AfterOpen(args.reboot)
          /\ UNCHANGED err
       \/ /\ Bail("PortOpenError")
          /\ UNCHANGED << port, opens >>
    /\ UNCHANGED << args, loader, image, log, wire, stream, hdr, wide >>

\* the outcomes of write_all(bytes): an empty slice performs no write and
\* cannot fail; otherwise all bytes are accepted, or the write fails after
\* the port accepted a proper prefix
WriteOutcomes(bytes) ==
    IF bytes = << >> THEN { [ok |-> TRUE, n |-> 0] }
    ELSE { [ok |-> TRUE, n |-> Len(bytes)] }
         \cup { [ok |-> FALSE, n |-> k] : k \in 0 .. (Len(bytes) - 1) }

\* a session that keeps the port when main returns
ProceedLeak(ok, next) ==
    /\ pc' = IF ok THEN next ELSE OnError(next)
    /\ err' = IF ok THEN err ELSE "IoError"
    /\ port' = port
    /\ opens' = opens

\* control after a port operation: on to next, or main returns the error
\* and the port is dropped
Proceed(ok, next) ==
    /\ pc' = IF ok THEN next ELSE OnError(next)
    /\ err' = IF ok THEN err ELSE "IoError"
    /\ port' = IF pc' \in { "error", "done" } THEN "released" ELSE port
    /\ opens' = opens

\* port.write_all(bytes)?
WriteAll(bytes, next) ==
    \E r \in WriteOutcomes(bytes) :
        /\ log' = IF bytes = << >> THEN log
                  ELSE Append(log, Op("write", bytes, 0, r.ok))
        /\ wire' = wire \o SubSeq(bytes, 1, r.n)
        /\ Proceed(r.ok, next)

\* port.flush()?
Flush(next) ==
    \E ok \in BOOLEAN :
        /\ log' = Append(log, Op("flush", << >>, 0, ok))
        /\ wire' = wire
        /\ Proceed(ok, next)

\* port.clear(ClearBuffer::Input)?
ClearInput(next) ==
    \E ok \in BOOLEAN :
        /\ log' = Append(log, Op("clear", << >>, 0, ok))
        /\ wire' = wire
        /\ Proceed(ok, next)

\* std::thread::sleep(ms): not a port operation, cannot fail
Sleep(ms, next) ==
    /\ log' = Append(log, Op("sleep", << >>, ms, TRUE))
    /\ wire' = wire
    /\ Proceed(TRUE, next)

\* ------------------------------------------------ upload protocol driver
quiet == << args, loader, image, stream, hdr, wide >>

\* main.rs:120
RebootWrite == pc = "reboot_write" /\ WriteAll(RebootCmd, "reboot_flush") /\ UNCHANGED quiet
\* main.rs:121
RebootFlush == pc = "reboot_flush" /\ Flush("reboot_sleep") /\ UNCHANGED quiet
\* main.rs:123
RebootSleep == pc = "reboot_sleep" /\ Sleep(RebootDelayMs, "reboot_clear") /\ UNCHANGED quiet
\* main.rs:124
RebootClear == pc = "reboot_clear" /\ ClearInput("trigger_write") /\ UNCHANGED quiet
\* main.rs:129
TriggerWrite == pc = "trigger_write" /\ WriteAll(TriggerCmd, "trigger_flush") /\ UNCHANGED quiet
\* main.rs:130
TriggerFlush == pc = "trigger_flush" /\ Flush("trigger_sleep") /\ UNCHANGED quiet
\* main.rs:132
TriggerSleep == pc = "trigger_sleep" /\ Sleep(TriggerDelayMs, "trigger_clear") /\ UNCHANGED quiet
\* main.rs:133
TriggerClear == pc = "trigger_clear" /\ ClearInput("magic") /\ UNCHANGED quiet
\* main.rs:137
SendMagic == pc = "magic" /\ WriteAll(Magic, "header") /\ UNCHANGED quiet

\* main.rs:141-156: the header write, then the progress bar and the counter
SendHeader ==
    /\ pc = "header"
    /\ WriteAll(Header(len, crc_val), "stream")
    /\ IF pc' = "stream"
       THEN /\ pb' = NewBar(len)
            /\ sent' = 0
       ELSE UNCHANGED << sent, pb >>
    /\ UNCHANGED << args, loader, image, hdr, wide >>

\* main.rs:157-162: one iteration of the streaming loop
StreamChunk ==
    /\ pc = "stream"
    /\ sent < Len(data)
    /\ LET end == ChunkEnd(sent, args.chunk_size, Len(data))
       IN  /\ WriteAll(Slice(data, sent, end), "stream")
           /\ IF pc' = "stream"
              THEN /\ sent' = end
                   /\ pb' = SetPosition(pb, end)
              ELSE UNCHANGED << sent, pb >>
    /\ UNCHANGED << args, loader, image, hdr, wide >>

\* main.rs:157, 164-167: the loop exits, main returns Ok and drops the port
Finish ==
    /\ pc = "stream"
    /\ ~(sent < Len(data))
    /\ pb' = [pb EXCEPT !.pos = pb.len]
    /\ log' = log
    /\ wire' = wire
    /\ Proceed(TRUE, "done")
    /\ UNCHANGED << args, loader, image, sent, hdr, wide >>

Next ==
    \/ LoadHex
    \/ HexData
    \/ HexExtendedLinearAddress
    \/ HexOther
    \/ HexEndOfFile
    \/ HexExhausted
    \/ HexMalformed
    \/ HexFinish
    \/ LoadRaw
    \/ CheckEmpty
    \/ ComputeCrc
    \/ OpenPort
    \/ RebootWrite
    \/ RebootFlush
    \/ RebootSleep
    \/ RebootClear
    \/ TriggerWrite
    \/ TriggerFlush
    \/ TriggerSleep
    \/ TriggerClear
    \/ SendMagic
    \/ SendHeader
    \/ StreamChunk
    \/ Finish

Spec == Init /\ [][Next]_vars

\* main.rs:118-164: the steps of the protocol driver, from the open port on
Driver ==
    \/ RebootWrite
    \/ RebootFlush
    \/ RebootSleep
    \/ RebootClear
    \/ TriggerWrite
    \/ TriggerFlush
    \/ TriggerSleep
    \/ TriggerClear
    \/ SendMagic
    \/ SendHeader
    \/ StreamChunk
    \/ Finish

\* main is one sequential thread: while the driver has a statement left to
\* execute, one is executed (a port operation returns within the timeout of
\* the port, a pause after its duration)
SpecFair == Spec /\ WF_vars(Driver)

\* ------------------------------------------------------- header codec
\* The header encoding of main.rs:141-143 applied to arbitrary pairs of
\* 32-bit values: every half drawn from the edges of the 16-bit range.
U32Halves == { 0, 1, 255, 256, 32768, 65535 }
U32Samples == { U32(h, l) : h \in U32Halves, l \in U32Halves }

InitHeader ==
    /\ args = [is_hex |-> FALSE, chunk_size |-> 1, reboot |-> FALSE]
    /\ pc = "load"
    /\ err = ""
    /\ file = << >>
    /\ records = << >>
    /\ unread = << >>
    /\ buffer = EmptyBuf
    /\ max_offset = 0
    /\ base_addr = U32(0, 0)
    /\ data = << >>
    /\ warned = FALSE
    /\ crc_val = U32(0, 0)
    /\ len = U32(0, 0)
    /\ port = "closed"
    /\ opens = 0
    /\ log = << >>
    /\ wire = << >>
    /\ sent = 0
    /\ pb = NoBar
    /\ wide = NoWide
    /\ hdr \in { [len |-> l, crc |-> c, bytes |-> << >>, built |-> FALSE] :
                    l \in U32Samples, c \in U32Samples }

\* main.rs:141-143 on the pair (hdr.len, hdr.crc)
HeaderEncode ==
    /\ ~hdr.built
    /\ hdr' = [hdr EXCEPT !.bytes = Header(hdr.len, hdr.crc), !.built = TRUE]
    /\ UNCHANGED << args, pc, err, loader, image, channel, stream, wide >>

SpecHeader == InitHeader /\ [][HeaderEncode]_vars

\* ------------------------------------------------ word-width arithmetic
\* The length conversion of main.rs:97, the address sum of main.rs:57 and the
\* index sum of main.rs:158 at full width, on sizes no byte sequence of the
\* model can have.  usize is the 64-bit word of the hosts the tool is built
\* for, kept as two u32 [hi, lo].
MaxPasses == 4

U64(h, l) == [hi |-> h, lo |-> l]

\* a + b on usize, wrapping
AddUsize(a, b) ==
    LET carry == IF AddU32Overflows(a.lo, b.lo) THEN U32(0, 1) ELSE U32(0, 0)
    IN  U64(AddU32(AddU32(a.hi, b.hi), carry), AddU32(a.lo, b.lo))

\* carry out of bit 63 of a + b
AddUsizeOverflows(a, b) ==
    LET carry == IF AddU32Overflows(a.lo, b.lo) THEN U32(0, 1) ELSE U32(0, 0)
    IN  \/ AddU32Overflows(a.hi, b.hi)
        \/ AddU32Overflows(AddU32(a.hi, b.hi), carry)

\* a < b on usize
LtUsize(a, b) ==
    \/ ~GeU32(a.hi, b.hi)
    \/ a.hi = b.hi /\ ~GeU32(a.lo, b.lo)

\* a.min(b) on usize (main.rs:158)
MinUsize(a, b) == IF LtUsize(b, a) THEN b ELSE a

\* a - b on u32, wrapping
WrappingSubU32(a, b) ==
    AddU32(AddU32(a, U32(65535 - b.hi, 65535 - b.lo)), U32(0, 1))

\* e - s on usize for s <= e: the length of data[s..e]
SliceLen(s, e) ==
    LET borrow == IF GeU32(e.lo, s.lo) THEN U32(0, 0) ELSE U32(0, 1)
    IN  U64(WrappingSubU32(WrappingSubU32(e.hi, s.hi), borrow),
            WrappingSubU32(e.lo, s.lo))

\* data.len() as u32 (main.rs:97) on a usize: the low 32 bits
UsizeAsU32(n) == n.lo

\* len as u64 (main.rs:148)
U32AsU64(x) == U64(U32(0, 0), x)

\* a loop that makes one pass more
LoopCondInclusive(sent_, n) == ~LtUsize(n, sent_)

\* while sent < data.len() (main.rs:157)
LoopCond(sent_, n) == LtUsize(sent_, n)

\* data.len() of a loaded, non-empty image: 1 .. isize::MAX
SizeSamples ==
    { U64(U32(0, 0), U32(0, 1)),
      U64(U32(0, 0), U32(65535, 65535)),
      U64(U32(0, 1), U32(0, 0)),
      U64(U32(0, 1), U32(0, 1)),
      U64(U32(16384, 0), U32(0, 0)),
      U64(U32(32767, 65535), U32(65535, 65535)) }

\* --chunk-size: 0 .. usize::MAX
ChunkSamples ==
    { U64(U32(0, 0), U32(0, 0)),
      U64(U32(0, 0), U32(0, 1)),
      U64(U32(0, 0), U32(32768, 0)),
      U64(U32(0, 1), U32(0, 0)),
      U64(U32(16384, 0), U32(0, 1)),
      U64(U32(32767, 65535), U32(65535, 65535)),
      U64(U32(32768, 0), U32(0, 0)),
      U64(U32(65535, 65535), U32(65535, 65535)) }

\* the 16-bit fields of a record and the lengths of its data
U16Samples == { 0, 1, 255, 256, 4097, 4129, 32768, 65535 }
ValueLens == { 0, 1, 255 }

Zero64 == U64(U32(0, 0), U32(0, 0))

WideInputs ==
    { [kind |-> "stream", at |-> "len", size |-> n, chunk |-> c,
       len |-> U32(0, 0), sent |-> Zero64, written |-> Zero64, passes |-> 0,
       upper |-> 0, offset |-> 0, n |-> 0, base |-> U32(0, 0),
       target |-> U32(0, 0), high |-> 0, wrapped |-> FALSE] :
         n \in SizeSamples, c \in ChunkSamples }
    \cup
    { [kind |-> "record", at |-> "ela", size |-> Zero64, chunk |-> Zero64,
       len |-> U32(0, 0), sent |-> Zero64, written |-> Zero64, passes |-> 0,
       upper |-> u, offset |-> o, n |-> k, base |-> U32(0, 0),
       target |-> U32(0, 0), high |-> 0, wrapped |-> FALSE] :
         u \in U16Samples, o \in U16Samples, k \in ValueLens }

InitWide ==
    /\ args = [is_hex |-> FALSE, chunk_size |-> 1, reboot |-> FALSE]
    /\ pc = "load"
    /\ err = ""
    /\ file = << >>
    /\ records = << >>
    /\ unread = << >>
    /\ buffer = EmptyBuf
    /\ max_offset = 0
    /\ base_addr = U32(0, 0)
    /\ data = << >>
    /\ warned = FALSE
    /\ crc_val = U32(0, 0)
    /\ len = U32(0, 0)
    /\ port = "closed"
    /\ opens = 0
    /\ log = << >>
    /\ wire = << >>
    /\ sent = 0
    /\ pb = NoBar
    /\ hdr = NoHdr
    /\ wide \in WideInputs

narrow == << args, pc, err, loader, image, channel, stream, hdr >>

\* main.rs:97, 156: the header length, then the counter starts at 0
WideLen ==
    /\ wide.kind = "stream" /\ wide.at = "len"
    /\ wide' = [wide EXCEPT !.len = UsizeAsU32(wide.size), !.at = "loop"]
    /\ UNCHANGED narrow

\* main.rs:157-160: one pass of the loop on the sizes alone; an index sum
\* that overflows panics, at the sum in a checked build and at the slice
\* (end < sent) in an unchecked one
WideChunk ==
    /\ wide.kind = "stream" /\ wide.at = "loop"
    /\ wide.passes < MaxPasses
    /\ LoopCond(wide.sent, wide.size)
    /\ IF AddUsizeOverflows(wide.sent, wide.chunk)
       THEN wide' = [wide EXCEPT !.wrapped = TRUE, !.at = "panic"]
       ELSE LET end == MinUsize(AddUsize(wide.sent, wide.chunk), wide.size)
            IN  wide' = [wide EXCEPT
                           !.written = AddUsize(@, SliceLen(wide.sent, end)),
                           !.sent = end,
                           !.passes = @ + 1]
    /\ UNCHANGED narrow

\* main.rs:157: the loop is left
WideFinish ==
    /\ wide.kind = "stream" /\ wide.at = "loop"
    /\ ~LoopCond(wide.sent, wide.size)
    /\ wide' = [wide EXCEPT !.at = "done"]
    /\ UNCHANGED narrow

\* main.rs:67-69
WideEla ==
    /\ wide.kind = "record" /\ wide.at = "ela"
    /\ wide' = [wide EXCEPT !.base = Shl16(wide.upper), !.at = "data"]
    /\ UNCHANGED narrow

\* main.rs:56-66 on a record of wide.n bytes: the address sum, the two
\* guards and the high-water mark
WideData ==
    /\ wide.kind = "record" /\ wide.at = "data"
    /\ wide' = [wide EXCEPT
                   !.target = TargetAddr(wide.base, wide.offset),
                   !.wrapped = AddU32Overflows(wide.base, U32(0, wide.offset)),
                   !.high = IF Applies(wide.base, wide.offset, wide.n)
                            THEN HighWater(0,
                                    U32ToNat(RelOffset(TargetAddr(wide.base,
                                                                  wide.offset))),
                                    wide.n)
                            ELSE 0,
                   !.at = "done"]
    /\ UNCHANGED narrow

NextWide ==
    \/ WideLen
    \/ WideChunk
    \/ WideFinish
    \/ WideEla
    \/ WideData

SpecWide == InitWide /\ [][NextWide]_vars

\* ================================================================ claims
\* u32::from_le_bytes of a 4-byte sequence
FromLeBytes(b) == U32(b[3] + 256 * b[4], b[1] + 256 * b[2])

RECURSIVE Flatten(_)
\* the concatenation of a sequence of byte sequences
Flatten(ss) == IF ss = << >> THEN << >> ELSE Head(ss) \o Flatten(Tail(ss))

\* the byte sequences of the writes in l, in order
WriteBytes(l) ==
    LET w == SelectSeq(l, LAMBDA e : e.op = "write")
    IN  [i \in 1 .. Len(w) |-> w[i].bytes]

\* the writes that precede the payload: reboot?, 'u', 0xAA, header
PreambleWrites == IF args.reboot THEN 4 ELSE 3

\* the payload writes: every write after the header
PayloadWrites ==
    LET w == WriteBytes(log)
    IN  IF Len(w) <= PreambleWrites THEN << >>
        ELSE SubSeq(w, PreambleWrites + 1, Len(w))

\* the wire image of a complete upload, from the claim's words
ExpectedWire ==
    (IF args.reboot THEN << 114, 101, 98, 111, 111, 116, 13, 10 >> ELSE << >>)
        \o << 117 >> \o << 170 >> \o Header(len, crc_val) \o data

\* C1: in every run that reaches Done without an error, the bytes written to
\* the channel are exactly 'reboot\r\n' iff the reboot flag is set, then 'u',
\* then 0xAA, then the 8-byte header, then the image, in this order and
\* nothing else, for every image and every chunk size >= 1.
C1_WireImage ==
    (pc = "done" /\ err = "") =>
        /\ args.chunk_size >= 1
        /\ wire = ExpectedWire
        /\ Flatten(WriteBytes(log)) = wire
        /\ Len(Header(len, crc_val)) = 8
        /\ LET w == WriteBytes(log)
               k == PreambleWrites
           IN  /\ Len(w) > k
               /\ args.reboot => w[1] = << 114, 101, 98, 111, 111, 116, 13, 10 >>
               /\ w[k - 2] = << 117 >>
               /\ w[k - 1] = << 170 >>
               /\ w[k] = Header(len, crc_val)
               /\ Flatten(PayloadWrites) = data

\* C1 witness: the end-to-end scenario, 10 bytes in chunks of 4, no reboot
C1_Witness ==
    /\ pc = "done"
    /\ err = ""
    /\ ~args.reboot
    /\ args.chunk_size = 4
    /\ data = << 1, 2, 3, 4, 5, 6, 7, 8, 9, 10 >>
    /\ PayloadWrites = << << 1, 2, 3, 4 >>, << 5, 6, 7, 8 >>, << 9, 10 >> >>

CeilDiv(a, b) == (a + b - 1) \div b

\* C2: streaming an image of size S with chunk size C performs exactly
\* ceil(S/C) payload writes whose concatenation is the image; every write but
\* the last has length C, the last has length S mod C, or C when C divides S.
C2_Chunking ==
    pc = "done" =>
        /\ args.chunk_size >= 1
        /\ LET S == Len(data)
               C == args.chunk_size
               w == PayloadWrites
           IN  /\ Len(w) = CeilDiv(S, C)
               /\ Flatten(w) = data
               /\ \A i \in 1 .. (Len(w) - 1) : Len(w[i]) = C
               /\ Len(w) >= 1
               /\ Len(w[Len(w)]) = IF S % C = 0 THEN C ELSE S % C

\* C2 witness: sizes that do not divide: 7 bytes in chunks of 3 (3, 3, 1)
C2_Witness ==
    /\ pc = "done"
    /\ Len(data) = 7
    /\ args.chunk_size = 3
    /\ Len(PayloadWrites) = 3
    /\ Len(PayloadWrites[3]) = 1

\* C3: the header is exactly 8 bytes, the length little-endian then the
\* checksum little-endian; decoding the 8 bytes as two little-endian 32-bit
\* integers recovers the (len, crc) pair, for every pair of 32-bit values.
C3_HeaderRoundTrip ==
    hdr.built =>
        /\ Len(hdr.bytes) = 8
        /\ \A i \in 1 .. 8 : hdr.bytes[i] \in 0 .. 255
        /\ FromLeBytes(SubSeq(hdr.bytes, 1, 4)) = hdr.len
        /\ FromLeBytes(SubSeq(hdr.bytes, 5, 8)) = hdr.crc

\* C3 witness: a pair whose four bytes all differ, 0x800000FF and 0xFFFF0100
C3_Witness ==
    /\ hdr.built
    /\ hdr.len = U32(32768, 255)
    /\ hdr.crc = U32(65535, 256)
    /\ hdr.bytes = << 255, 0, 0, 128, 0, 1, 255, 255 >>

\* ---- the records of a hex file, read from the file alone
\* the upper half in force for record i: the last ExtendedLinearAddress
\* before it, 0 if there is none
UpperAt(recs, i) ==
    LET elas == { j \in 1 .. (i - 1) : recs[j].type = "ExtendedLinearAddress" }
    IN  IF elas = {} THEN 0
        ELSE recs[CHOOSE j \in elas : \A k \in elas : k <= j].upper

\* record i is a Data record whose address upper:offset is >= 0x1001:0x0100
AtOrAboveBase(recs, i) ==
    /\ recs[i].type = "Data"
    /\ \/ UpperAt(recs, i) > 4097
       \/ UpperAt(recs, i) = 4097 /\ recs[i].offset >= 256

\* its offset relative to 0x10010100; past 32 * 65536 it is beyond 2 MiB
RelAt(recs, i) == (UpperAt(recs, i) - 4097) * 65536 + recs[i].offset - 256

\* record i is a Data record at or above the base that fits in 2 MiB
AppliedAt(recs, i) ==
    /\ AtOrAboveBase(recs, i)
    /\ UpperAt(recs, i) - 4097 <= 32
    /\ RelAt(recs, i) + Len(recs[i].value) <= 2097152

\* the largest rel + len over the applied records, 0 if there is none
HighWaterOf(recs) ==
    LET ends == { RelAt(recs, i) + Len(recs[i].value) :
                    i \in { j \in 1 .. Len(recs) : AppliedAt(recs, j) } }
    IN  IF ends = {} THEN 0 ELSE CHOOSE e \in ends : \A f \in ends : f <= e

\* C4 as stated: hex loading fails with NoData exactly when no Data record
\* was written at or above the relocation base.
C4_Original ==
    [][pc = "hex_end" =>
          ((err' = "NoData") <=>
              ~(\E i \in 1 .. Len(records) : AppliedAt(records, i)))]_vars

\* C4 (amended): when the records have been processed, hex loading fails with
\* NoData exactly when the high-water mark is zero, that is when no applied
\* Data record ends above relative offset 0 (none was applied, or only
\* zero-length records at exactly the base); every input whose Data records
\* all lie below the base fails with NoData; on NoData no port is opened and
\* nothing is written.
C4_NoData ==
    [][/\ pc = "hex_end" =>
             /\ (err' = "NoData") <=> (HighWaterOf(records) = 0)
             /\ (\A i \in 1 .. Len(records) : ~AtOrAboveBase(records, i))
                    => err' = "NoData"
       /\ err' = "NoData" =>
             /\ pc' = "error"
             /\ port' = "closed" /\ opens' = 0
             /\ log' = << >> /\ wire' = << >>]_vars

\* C4 witness: NoData for a file with a Data record below the base and a
\* zero-length Data record applied at exactly the base
C4_Witness ==
    /\ err = "NoData"
    /\ port = "closed"
    /\ \E i \in 1 .. Len(records) :
          records[i].type = "Data" /\ ~AtOrAboveBase(records, i)
    /\ \E i \in 1 .. Len(records) : AppliedAt(records, i)

\* C5: a Data record with target = base_address + offset >= 0x10010100 and
\* (target - 0x10010100) + len(bytes) <= 2 MiB is copied into the image at
\* target - 0x10010100 and the high-water mark becomes the maximum of its old
\* value and rel + len(bytes); so ExtendedLinearAddress(0x1001) followed by
\* Data{offset 0x0100, bytes} yields an image that starts with bytes.
C5_DataApplied ==
    [][/\ (pc = "hex_loop" /\ pc' = "hex_loop"
              /\ Len(records') = Len(records) + 1
              /\ records'[Len(records')].type = "Data") =>
             LET rec == records'[Len(records')]
                 n == Len(rec.value)
                 target == AddU32(base_addr, U32(0, rec.offset))
                 rel == SubU32(target, U32(4097, 256))
             IN  (GeU32(target, U32(4097, 256)) /\ rel.hi <= 32
                     /\ rel.hi * 65536 + rel.lo + n <= 2097152) =>
                    LET r == rel.hi * 65536 + rel.lo
                    IN  /\ \A k \in 0 .. (n - 1) :
                               /\ (r + k) \in DOMAIN buffer'
                               /\ buffer'[r + k] = rec.value[k + 1]
                        /\ \A i \in (DOMAIN buffer) \cup (DOMAIN buffer') :
                               i \notin r .. (r + n - 1) =>
                                   BufAt(buffer', i) = BufAt(buffer, i)
                        /\ max_offset' = Max(max_offset, r + n)
       /\ (pc = "hex_end" /\ pc' = "check_empty"
              /\ Len(records) >= 2
              /\ records[1] = ElaRec(4097)
              /\ records[2].type = "Data" /\ records[2].offset = 256
              /\ (Len(records) = 2 \/ (Len(records) = 3 /\ records[3] = EofRec))) =>
             /\ Len(data') >= Len(records[2].value)
             /\ SubSeq(data', 1, Len(records[2].value)) = records[2].value]_vars

\* C5 witness: ExtendedLinearAddress(0x1001) then Data{0x0100, [0xA1, 0xA2]}
\* has been copied to relative offset 0
C5_Witness ==
    /\ pc = "hex_end"
    /\ records = << ElaRec(4097), DataRec(256, << 161, 162 >>), EofRec >>
    /\ BufAt(buffer, 0) = 161
    /\ BufAt(buffer, 1) = 162
    /\ max_offset = 2

\* C6: in raw-binary mode the image is byte-identical to the file, whatever
\* its content; the advisory is emitted exactly when the file has at least 4
\* bytes and starts with ASCII 'APPS'; it changes neither the image nor any
\* later step: the run fails for no reason of its own and the same bytes are
\* written as without it.
C6_RawImage ==
    /\ args.is_hex => ~warned
    /\ (~args.is_hex /\ pc # "load" /\ err # "FileReadError") =>
          /\ data = file
          /\ warned <=> (/\ Len(file) >= 4
                         /\ file[1] = 65 /\ file[2] = 80
                         /\ file[3] = 80 /\ file[4] = 83)
          /\ warned => err \in { "", "PortOpenError", "IoError" }
          /\ pc = "done" =>
                /\ Flatten(PayloadWrites) = file
                /\ wire = ExpectedWire

\* C6 witness: a file that starts with 'APPS' was uploaded whole
C6_Witness ==
    /\ ~args.is_hex
    /\ warned
    /\ pc = "done"
    /\ Len(file) > 4
    /\ SubSeq(file, 1, 4) = << 65, 80, 80, 83 >>
    /\ Flatten(PayloadWrites) = file

LoadingPcs == { "load", "hex_loop", "hex_end", "check_empty" }
LoadErrors == { "FileReadError", "HexParseError", "NoData" }

\* C7: in either input mode a zero-byte image ends the run with EmptyImage
\* and the upload does not proceed: the port is never opened and no byte is
\* written.  (An image reaches the check only after loading succeeded.)
C7_EmptyImage ==
    /\ (pc \notin LoadingPcs /\ err \notin LoadErrors /\ Len(data) = 0) =>
          (pc = "error" /\ err = "EmptyImage")
    /\ err = "EmptyImage" =>
          /\ pc = "error" /\ Len(data) = 0
          /\ port = "closed" /\ opens = 0
          /\ log = << >> /\ wire = << >>
    /\ (opens > 0 \/ port # "closed" \/ log # << >> \/ wire # << >>) =>
          Len(data) > 0

\* C7 witness: the empty raw file ended the run with EmptyImage
C7_Witness ==
    /\ pc = "error"
    /\ err = "EmptyImage"
    /\ ~args.is_hex
    /\ file = << >>
    /\ port = "closed"

\* ---- the operations of a complete upload, from the protocol table
RebootOps ==
    << Op("write", << 114, 101, 98, 111, 111, 116, 13, 10 >>, 0, TRUE),
       Op("flush", << >>, 0, TRUE),
       Op("sleep", << >>, 2000, TRUE),
       Op("clear", << >>, 0, TRUE) >>

TriggerOps ==
    << Op("write", << 117 >>, 0, TRUE),
       Op("flush", << >>, 0, TRUE),
       Op("sleep", << >>, 1000, TRUE),
       Op("clear", << >>, 0, TRUE) >>

ChunkOps ==
    LET S == Len(data)
        C == args.chunk_size
    IN  IF C = 0 THEN << >>
        ELSE [i \in 1 .. CeilDiv(S, C) |->
                Op("write", SubSeq(data, (i - 1) * C + 1, Min(i * C, S)), 0, TRUE)]

Plan ==
    (IF args.reboot THEN RebootOps ELSE << >>) \o TriggerOps
        \o << Op("write", << 170 >>, 0, TRUE) >>
        \o << Op("write", Header(len, crc_val), 0, TRUE) >>
        \o ChunkOps

\* C8: a failure of any channel operation aborts the session at once: the
\* failed operation is the last thing done (no later write, flush, clear or
\* sleep), the run ends in an error state and never reaches Done, and no
\* operation is attempted twice: what was done is a prefix of the plan.
C8_FailFast ==
    LET n == Len(log)
    IN  /\ \A i \in 1 .. n :
               ~log[i].ok =>
                   /\ i = n
                   /\ pc = "error" /\ err = "IoError"
                   /\ port = "released"
        /\ err = "IoError" => (n >= 1 /\ ~log[n].ok)
        /\ pc = "done" => err = ""
        /\ n >= 1 =>
               /\ n <= Len(Plan)
               /\ \A i \in 1 .. n : [log[i] EXCEPT !.ok = TRUE] = Plan[i]

\* C8 witness: a chunk write failed in mid stream after the port took a part
C8_Witness ==
    /\ pc = "error"
    /\ err = "IoError"
    /\ sent > 0
    /\ ~log[Len(log)].ok
    /\ log[Len(log)].op = "write"
    /\ Len(wire) > PreambleWrites + 9 + sent

FirstIndex(S) == CHOOSE i \in S : \A j \in S : i <= j

\* C9: 0xAA is written only after write 'u', flush, wait 1000 ms, clear
\* input have completed in this order; with the reboot flag 'u' is written
\* only after write 'reboot\r\n', flush, wait 2000 ms, clear input; without
\* it neither the reboot write nor the 2000 ms wait occurs.
C9_HandshakeOrder ==
    LET writesOf(b) ==
            { i \in 1 .. Len(log) : log[i].op = "write" /\ log[i].bytes = b }
        magic == writesOf(<< 170 >>)
        trigger == writesOf(<< 117 >>)
        before == IF args.reboot THEN RebootOps ELSE << >>
    IN  /\ magic # {} =>
               SubSeq(log, 1, FirstIndex(magic) - 1) = before \o TriggerOps
        /\ trigger # {} =>
               SubSeq(log, 1, FirstIndex(trigger) - 1) = before
        /\ pc \in { "header", "stream", "done" } => magic # {}
        /\ ~args.reboot =>
               \A i \in 1 .. Len(log) :
                   /\ log[i].bytes # << 114, 101, 98, 111, 111, 116, 13, 10 >>
                   /\ ~(log[i].op = "sleep" /\ log[i].ms = 2000)

\* C9 witness: with the reboot flag, 0xAA has just been written as the
\* ninth operation
C9_Witness ==
    /\ args.reboot
    /\ pc = "header"
    /\ Len(log) = 9
    /\ log[9] = Op("write", << 170 >>, 0, TRUE)
    /\ log[3] = Op("sleep", << >>, 2000, TRUE)

\* ---- CRC-32/ISO-HDLC by its definition: polynomial 0x04C11DB7 shifted
\* most significant bit first, input bytes and output reflected, initial
\* value and final XOR 0xFFFFFFFF
Shl1(a) == U32((a.hi * 2 + a.lo \div 32768) % 65536, (a.lo * 2) % 65536)

RefShift(r) ==
    IF r.hi >= 32768 THEN XorU32(Shl1(r), U32(1217, 7607)) ELSE Shl1(r)

RefByte(r, b) ==
    LET f[j \in 0 .. 8] ==
            IF j = 0 THEN XorU32(r, U32(RevBits(b, 8) * 256, 0))
            ELSE RefShift(f[j - 1])
    IN  f[8]

RefCrc32(bytes) ==
    LET f[j \in 0 .. Len(bytes)] ==
            IF j = 0 THEN U32(65535, 65535)
            ELSE LET prev == f[j - 1]
                 IN  IF prev.lo >= 0 THEN RefByte(prev, bytes[j]) ELSE prev
    IN  XorU32(Reflect32(f[Len(bytes)]), U32(65535, 65535))

\* C10: the checksum in the header is the CRC-32/ISO-HDLC value of exactly
\* the bytes streamed after the header, the whole image; for the ASCII bytes
\* '123456789' it is 0xCBF43926.
C10_Checksum ==
    /\ pc = "open" =>
          /\ crc_val = RefCrc32(data)
          /\ data = << 49, 50, 51, 52, 53, 54, 55, 56, 57 >> =>
                crc_val = U32(52212, 14630)
    /\ pc = "done" =>
          LET w == WriteBytes(log)
              h == w[PreambleWrites]
          IN  /\ Len(h) = 8
              /\ FromLeBytes(SubSeq(h, 5, 8)) = RefCrc32(Flatten(PayloadWrites))
              /\ Flatten(PayloadWrites) = data

\* C10 witness: '123456789' was uploaded under the checksum 0xCBF43926
C10_Witness ==
    /\ pc = "done"
    /\ data = << 49, 50, 51, 52, 53, 54, 55, 56, 57 >>
    /\ crc_val = U32(52212, 14630)
    /\ SubSeq(wire, 7, 10) = << 38, 57, 244, 203 >>

\* record i starts above the capacity or runs over its end
OverCapacity(recs, i) ==
    \/ UpperAt(recs, i) - 4097 > 32
    \/ RelAt(recs, i) + Len(recs[i].value) > 2097152

\* C13: in hex mode a Data record whose absolute address is below 0x10010100,
\* or whose relocated range rel + len(bytes) exceeds the 2 MiB capacity, is
\* dropped without error: the scratch buffer, the high-water mark and the
\* base address are unchanged (no byte of it is written, not even those that
\* would fit), no error is raised and the loop goes on to the next record.
C13_DataDropped ==
    [][(pc = "hex_loop" /\ Len(records') = Len(records) + 1
           /\ records'[Len(records')].type = "Data"
           /\ LET i == Len(records')
              IN  \/ ~AtOrAboveBase(records', i)
                  \/ OverCapacity(records', i)) =>
          /\ \A k \in (DOMAIN buffer) \cup (DOMAIN buffer') \cup { 2097151 } :
                 BufAt(buffer', k) = BufAt(buffer, k)
          /\ DOMAIN buffer' = DOMAIN buffer
          /\ max_offset' = max_offset
          /\ base_addr' = base_addr
          /\ err' = "" /\ pc' = "hex_loop"]_vars

\* C13 witness: a record below the base (no base set yet) and, under upper
\* half 0x1021, a two-byte record at relative offset 2 MiB - 1 whose first
\* byte alone would fit, were both dropped: the buffer is still all 0xFF
C13_Witness ==
    /\ pc = "hex_loop"
    /\ err = ""
    /\ records = << DataRec(255, << 7, 8 >>), ElaRec(4129), DataRec(255, << 7, 8 >>) >>
    /\ ~AtOrAboveBase(records, 1)
    /\ AtOrAboveBase(records, 3) /\ RelAt(records, 3) = 2097151
    /\ buffer = EmptyBuf
    /\ max_offset = 0

\* C14: in hex mode base_address starts at 0; ExtendedLinearAddress(upper)
\* sets it to upper << 16, and that value places every following Data record
\* until the next ExtendedLinearAddress; Data records and records of any
\* other type leave base_address alone, and records of any other type change
\* neither the scratch buffer nor the high-water mark.
C14_BaseAddress ==
    [][/\ (pc = "load" /\ pc' = "hex_loop") => base_addr' = U32(0, 0)
       /\ (pc = "hex_loop" /\ Len(records') = Len(records) + 1) =>
             LET i == Len(records')
                 rec == records'[i]
             IN  /\ base_addr'.hi = UpperAt(records', i + 1)
                 /\ base_addr'.lo = 0
                 /\ rec.type = "ExtendedLinearAddress" =>
                        /\ base_addr' = U32(rec.upper, 0)
                        /\ buffer' = buffer /\ max_offset' = max_offset
                 /\ rec.type # "ExtendedLinearAddress" => base_addr' = base_addr
                 /\ rec.type = "Data" =>
                        /\ (buffer' # buffer \/ max_offset' # max_offset)
                               => AppliedAt(records', i)
                        /\ AppliedAt(records', i) =>
                               \A k \in 1 .. Len(rec.value) :
                                   BufAt(buffer', RelAt(records', i) + k - 1)
                                       = rec.value[k]
                 /\ rec.type \notin { "Data", "ExtendedLinearAddress" } =>
                        /\ buffer' = buffer
                        /\ max_offset' = max_offset]_vars

\* C14 witness: 0xFFFF was replaced by 0x1001, the base address is still
\* 0x10010000 after a Data record, and that record was placed with it
C14_Witness ==
    /\ pc = "hex_loop"
    /\ records = << ElaRec(65535), ElaRec(4097), DataRec(256, << 161, 162 >>) >>
    /\ base_addr = U32(4097, 0)
    /\ BufAt(buffer, 0) = 161
    /\ BufAt(buffer, 1) = 162

\* ---- the image of a hex file, read from the file alone
\* the applied records of recs that cover relative offset o
Covering(recs, o) ==
    { i \in 1 .. Len(recs) :
        /\ AppliedAt(recs, i)
        /\ RelAt(recs, i) <= o
        /\ o < RelAt(recs, i) + Len(recs[i].value) }

\* HighWaterOf(recs) bytes: at each offset the byte of the last record that
\* covers it, 0xFF where none does
ImageOf(recs) ==
    [k \in 1 .. HighWaterOf(recs) |->
        LET cov == Covering(recs, k - 1)
        IN  IF cov = {} THEN 255
            ELSE LET last == CHOOSE i \in cov : \A j \in cov : j <= i
                 IN  recs[last].value[k - RelAt(recs, last)]]

\* the positions of the EndOfFile records of recs
EofAt(recs) == { i \in 1 .. Len(recs) : recs[i].type = "EndOfFile" }

\* the records before the first EndOfFile record
BeforeEof(recs) ==
    IF EofAt(recs) = {} THEN recs
    ELSE SubSeq(recs, 1, FirstIndex(EofAt(recs)) - 1)

\* C15: in hex mode processing stops at the first EndOfFile record: the
\* record itself changes neither buffer nor high-water mark, nothing behind
\* it is read, and the outcome, NoData or the image, is the one determined
\* by the records before it, whatever records follow it in the file.
C15_StopAtEndOfFile ==
    [][/\ (pc = "hex_loop" /\ Len(records') = Len(records) + 1
              /\ records'[Len(records')].type = "EndOfFile") =>
             /\ pc' = "hex_end" /\ err' = ""
             /\ buffer' = buffer /\ max_offset' = max_offset
             /\ base_addr' = base_addr
       /\ EofAt(records) # {} =>
             /\ EofAt(records) = { Len(records) }
             /\ pc = "hex_end"
             /\ records' = records \/ records' = << >>
             /\ LET pre == BeforeEof(records \o unread)
                IN  /\ pre = SubSeq(records, 1, Len(records) - 1)
                    /\ pc' = "error" <=> HighWaterOf(pre) = 0
                    /\ pc' = "error" => (err' = "NoData" /\ data' = << >>)
                    /\ pc' # "error" =>
                           /\ pc' = "check_empty" /\ err' = ""
                           /\ data' = ImageOf(pre)]_vars

\* C15 witness: EndOfFile came third; behind it the file holds a Data record
\* that would have been applied over the one byte loaded, and the loop has
\* been left without it
C15_Witness ==
    /\ pc = "hex_end"
    /\ records = << ElaRec(4097), DataRec(257, << 177 >>), EofRec >>
    /\ unread = << ElaRec(4097), DataRec(256, << 193, 194, 195 >>) >>
    /\ ImageOf(records \o unread) = << 193, 194, 195 >>
    /\ max_offset = 2
    /\ BufAt(buffer, 0) = 255
    /\ BufAt(buffer, 1) = 177

\* C16: after successful hex-mode loading the image length is the maximum of
\* rel + len(bytes) over the applied Data records; an image byte covered by
\* applied records is the byte of the last of them in file order, and an
\* image byte covered by none is 0xFF.  While the records are read the
\* high-water mark is that maximum over the records read so far.
C16_HexImage ==
    [][/\ (pc = "hex_loop" /\ pc' \in { "hex_loop", "hex_end" }) =>
             max_offset' = HighWaterOf(records')
       /\ (pc = "hex_end" /\ pc' = "check_empty") =>
             /\ Len(data') = HighWaterOf(records)
             /\ Len(data') > 0
             /\ \A k \in 1 .. Len(data') :
                    LET cov == Covering(records, k - 1)
                    IN  /\ cov = {} => data'[k] = 255
                        /\ cov # {} =>
                               \E i \in cov :
                                   /\ \A j \in cov : j <= i
                                   /\ data'[k] = records[i].value[k - RelAt(records, i)]]_vars

\* C16 witness: the image 0xA1 0xB1 of a file whose second Data record
\* overwrote the second byte of the first
C16_Witness ==
    /\ args.is_hex
    /\ pc = "check_empty"
    /\ data = << 161, 177 >>

\* the image 0xFF 0xFF 0xFF 0xC1 of a file whose only applied record lies at
\* relative offset 3: the gap below it holds the fill byte
C16_WitnessGap ==
    /\ args.is_hex
    /\ pc = "check_empty"
    /\ data = << 255, 255, 255, 193 >>

\* C17: in hex mode a malformed record met before any EndOfFile record is a
\* fatal parse error wherever it stands: loading aborts with HexParseError
\* even when earlier Data records were applied, no image is produced, the
\* serial port is never opened and nothing is written.
C17_ParseError ==
    /\ (records # << >> /\ records[Len(records)].type = "Err") =>
          /\ pc = "error" /\ err = "HexParseError"
          /\ EofAt(records) = {}
    /\ err = "HexParseError" =>
          /\ pc = "error"
          /\ records # << >> /\ records[Len(records)].type = "Err"
          /\ data = << >> /\ crc_val = U32(0, 0) /\ len = U32(0, 0)
          /\ port = "closed" /\ opens = 0
          /\ log = << >> /\ wire = << >>

\* C17 witness: the third record was malformed, after two bytes had been
\* written into the buffer at the relocation base
C17_Witness ==
    /\ pc = "error"
    /\ err = "HexParseError"
    /\ records = << ElaRec(4097), DataRec(256, << 161, 162 >>), ErrRec >>
    /\ max_offset = 2
    /\ data = << >>
    /\ port = "closed"

Terminal == { "done", "error" }

\* C19: the serial channel is opened at most once per run and only after the
\* image and its checksum have been computed; every channel operation and
\* pause happens while it is open; after a successful open it is released on
\* every exit path, on reaching Done and on termination by a channel error,
\* and nothing is done with it afterwards.
C19_ChannelLifetime ==
    [][/\ opens' <= 1
       /\ port' = "closed" <=> opens' = 0
       /\ (port = "closed" /\ port' # "closed") =>
             /\ pc = "open" /\ port' = "open" /\ opens' = 1
             /\ data # << >>
             /\ crc_val = RefCrc32(data)
             /\ log = << >> /\ wire = << >>
       /\ (log' # log \/ wire' # wire) =>
             /\ port = "open"
             /\ Len(log') = Len(log) + 1
       /\ opens' = 1 => (port' = "released" <=> pc' \in Terminal)
       /\ (pc' = "done" \/ err' = "IoError") => port' = "released"
       /\ port # "released"]_vars

\* C19 witness: the input-buffer clear after the trigger failed and the
\* port, opened once, has been released
C19_Witness ==
    /\ pc = "error"
    /\ err = "IoError"
    /\ opens = 1
    /\ port = "released"
    /\ ~args.reboot
    /\ Len(log) = 4
    /\ log[4] = Op("clear", << >>, 0, FALSE)

\* what the claim says of one step of the session, for the counter, the
\* payload writes and the progress shown
StreamingStep ==
    /\ pc' \in { "stream", "done" } =>
          /\ 0 <= sent' /\ sent' <= Len(data')
          /\ Flatten(PayloadWrites') = SubSeq(data', 1, sent')
          /\ pb'.len = Len(data')
    /\ (pc = "stream" /\ pc' = "stream") =>
          /\ sent' > sent
          /\ Len(log') = Len(log) + 1
          /\ log'[Len(log')] = Op("write", SubSeq(data, sent + 1, sent'), 0, TRUE)
          /\ wire' = wire \o SubSeq(data, sent + 1, sent')
          /\ pb'.pos = sent'
    /\ pc' = "done" => (sent' = Len(data') /\ pb'.pos = Len(data'))

\* C18: during Streaming the sent-byte counter satisfies 0 <= sent <= S,
\* equals the number of payload bytes written so far and strictly increases
\* with each chunk; each chunk is the image slice that starts at the counter,
\* so the image is written once, in order, without gap, overlap or
\* retransmission; the progress shown after each chunk is the new counter
\* against the total S.
C18_Streaming == [][StreamingStep]_vars

\* the same for the runs whose chunk size is at least 1
C18_StreamingPositiveChunk == [][args.chunk_size >= 1 => StreamingStep]_vars

\* a pass through the streaming loop with chunk size 0 has written nothing
\* and left the counter at 0
C18_ZeroChunkPass ==
    /\ pc = "stream"
    /\ args.chunk_size = 0
    /\ sent = 0
    /\ pb.tick = 1
    /\ PayloadWrites = << >>

\* C12: every run terminates: for every non-empty image and every chunk size
\* the command line accepts, 0 included, once the port is open the driver
\* eventually reaches Done unless a channel operation fails.
C12_Terminates == (port = "open") ~> (pc = "done" \/ err = "IoError")

\* the same for the runs whose chunk size is at least 1
C12_TerminatesPositiveChunk ==
    (port = "open" /\ args.chunk_size >= 1) ~> (pc = "done" \/ err = "IoError")

\* the streaming loop has come round to the state it was in two passes ago:
\* chunk size 0, counter 0, nothing written, spinner back on its first frame
C12_ZeroChunkLoop ==
    /\ pc = "stream"
    /\ err = ""
    /\ args.chunk_size = 0
    /\ sent = 0 /\ sent < Len(data)
    /\ pb = NewBar(len)
    /\ ENABLED StreamChunk
    /\ ~ENABLED Finish

\* C11: for every image that is uploaded the length fits in 32 bits: the
\* 32-bit length field of the header equals the number of image bytes
\* streamed after it, in raw-binary mode as well as in hex mode.
C11_LengthFits ==
    (wide.kind = "stream" /\ wide.at = "done") =>
        /\ wide.size.hi = U32(0, 0)
        /\ U32AsU64(wide.len) = wide.written

\* what does hold: everything is streamed, and in hex mode the length is at
\* most the 2 MiB of the scratch buffer
C11_AllStreamedHexFits ==
    /\ (wide.kind = "stream" /\ wide.at = "done") =>
          (wide.written = wide.size /\ wide.sent = wide.size)
    /\ wide.kind = "record" => wide.high <= 2097152

\* a raw image of 2^32 bytes was streamed whole under a header length of 0
C11_Truncated ==
    /\ wide.kind = "stream" /\ wide.at = "done"
    /\ wide.size = U64(U32(0, 1), U32(0, 0))
    /\ wide.written = wide.size
    /\ wide.len = U32(0, 0)

\* C20: no address or index computation wraps around its width: base_addr +
\* offset stays within 32 bits for every 16-bit upper value and every 16-bit
\* offset, and in the streaming loop sent + chunk_size stays within the
\* machine word for every chunk size up to the word maximum and every
\* value of sent the loop reaches.
C20_NoWrap ==
    /\ ~wide.wrapped
    /\ wide.at # "panic"
    /\ (wide.kind = "record" /\ wide.at = "done") =>
          (wide.target.hi = wide.upper /\ wide.target.lo = wide.offset)
    /\ (wide.kind = "stream" /\ wide.at = "loop") =>
          ~LtUsize(wide.size, wide.sent)

\* C20 witness: with chunk size 2^62 + 1 the counter stands at 2^62 + 1 in an
\* image of 2^63 - 1 bytes: the next sum, 2^63 + 2, is above every image
\* length and still below 2^64
C20_Witness ==
    /\ wide.kind = "stream" /\ wide.at = "loop"
    /\ wide.size = U64(U32(32767, 65535), U32(65535, 65535))
    /\ wide.chunk = U64(U32(16384, 0), U32(0, 1))
    /\ wide.sent = wide.chunk
    /\ AddUsize(wide.sent, wide.chunk) = U64(U32(32768, 0), U32(0, 2))
    /\ ~AddUsizeOverflows(wide.sent, wide.chunk)

\* the largest address: upper 0xFFFF, offset 0xFFFF gives 0xFFFFFFFF
C20_WitnessAddress ==
    /\ wide.kind = "record" /\ wide.at = "done"
    /\ wide.upper = 65535 /\ wide.offset = 65535
    /\ wide.target = U32(65535, 65535)

====
